---- MODULE Spec2Model ----
(***************************************************************************)
(* A model of the Markdown block parser of scripts/build_pdf.py:           *)
(* MarkdownParser (its buffers, flags and block list) and the single       *)
(* forward scan of MarkdownParser.parse, one action per branch of the      *)
(* loop body.  A Python str is a sequence of one-character strings, so     *)
(* strip, lstrip, startswith, find, split and int are computed character   *)
(* by character as the code computes them.  With it, the font cache of     *)
(* _register_font and the file loop of build_pdf_from_files.               *)
(***************************************************************************)
EXTENDS Integers, Sequences, FiniteSets, TLC

VARIABLES
    lines,      \* md.splitlines()                                   (parse, line 208)
    i,          \* the loop index, 0-based                           (parse, line 209)
    pc,         \* "new" after construction, "scan" in the while loop of parse,
                \* "done" after its return, "raised" when an exception left it
    self,       \* the MarkdownParser object: its fields, and two history fields
    seen,       \* history: the 1-based indices of the lines the loop body ran on
    calls,      \* history: the number of calls of parse made on self
    font,       \* the module globals _FONT_REGISTERED and _FONT_NAME, and the
                \* history of the calls of _register_font
    build       \* one call of build_pdf_from_files: its position and locals

vars == <<lines, i, pc, self, seen, calls, font, build>>

\* self.blocks
blocks == self.blocks
\* self.para_buf
para_buf == self.para_buf
\* self.bullet_buf
bullet_buf == self.bullet_buf
\* self.ordered_list_buf
ordered_list_buf == self.ordered_list_buf
\* self.quote_buf
quote_buf == self.quote_buf
\* self.code_lines
code_lines == self.code_lines
\* self.in_code
in_code == self.in_code
\* self.code_language: <<>> is None, <<t>> is the str t
code_language == self.code_language
\* history: per buffer, the indices of the lines buffered in it
src == self.src
\* history: per block, the indices of the lines it was built from
block_src == self.block_src

----------------------------------------------------------------------------
(* Bounds of the model *)

\* Longest document (in lines) drawn from Vocab
MaxLines == 3
\* Longest document (in lines) drawn from Vocab and EdgeVocab together
MaxEdgeLines == 2
\* Longest document (in lines) drawn from FenceVocab
MaxFenceLines == 5
\* the number of calls of parse on one MarkdownParser object
MaxCalls == 2
\* the number of lines of the text of a later call of parse on the same object
MaxReuseLines == 2
\* the number of calls of _register_font
MaxFontCalls == 3
\* the length of input_paths
MaxPaths == 2

----------------------------------------------------------------------------
(* Python str operations *)

\* str.isspace() for one character, over the characters of the model
IsSpace(c) == c \in {" ", "\t", "\n", "\r"}

\* str.isdigit() for one character (ASCII digits; the model has no other digit)
IsDigit(c) == c \in {"0", "1", "2", "3", "4", "5", "6", "7", "8", "9"}

\* s[from:] with a 0-based index
Slice(s, from) == IF from >= Len(s) THEN <<>> ELSE SubSeq(s, from + 1, Len(s))

\* s[:to] with a 0-based index
Prefix(s, to) == IF to <= 0 THEN <<>> ELSE SubSeq(s, 1, IF to > Len(s) THEN Len(s) ELSE to)

RECURSIVE LStrip(_)
\* str.lstrip()
LStrip(s) == IF s # <<>> /\ IsSpace(Head(s)) THEN LStrip(Tail(s)) ELSE s

RECURSIVE RStrip(_)
\* str.rstrip()
RStrip(s) == IF s # <<>> /\ IsSpace(s[Len(s)]) THEN RStrip(SubSeq(s, 1, Len(s) - 1)) ELSE s

\* str.strip()
Strip(s) == RStrip(LStrip(s))

RECURSIVE LStripChar(_, _)
\* str.lstrip(c) for a one-character argument
LStripChar(s, c) == IF s # <<>> /\ Head(s) = c THEN LStripChar(Tail(s), c) ELSE s

RECURSIVE RStripChar(_, _)
\* str.rstrip(c) for a one-character argument
RStripChar(s, c) ==
    IF s # <<>> /\ s[Len(s)] = c THEN RStripChar(SubSeq(s, 1, Len(s) - 1), c) ELSE s

\* str.startswith(p)
StartsWith(s, p) == Len(s) >= Len(p) /\ SubSeq(s, 1, Len(p)) = p

\* str.find(p): the 0-based index of the first occurrence of p, or -1
Find(s, p) ==
    LET hits == {k \in 0..(Len(s) - Len(p)) : SubSeq(s, k + 1, k + Len(p)) = p}
    IN IF hits = {} THEN -1 ELSE CHOOSE k \in hits : \A m \in hits : k <= m

RECURSIVE TakeWord(_)
\* the longest prefix of s without whitespace
TakeWord(s) == IF s = <<>> \/ IsSpace(Head(s)) THEN <<>> ELSE <<Head(s)>> \o TakeWord(Tail(s))

\* str.split()[0]: the first whitespace-delimited token; IndexError when there is none
IndexError == <<"IndexError">>
SplitFirst(s) == IF LStrip(s) = <<>> THEN IndexError ELSE TakeWord(LStrip(s))

RECURSIVE JoinSpace(_)
\* " ".join(parts)
JoinSpace(parts) ==
    IF parts = <<>> THEN <<>>
    ELSE IF Len(parts) = 1 THEN parts[1]
    ELSE parts[1] \o <<" ">> \o JoinSpace(Tail(parts))

\* [s.strip() for s in parts]
StripEach(parts) == [k \in 1..Len(parts) |-> Strip(parts[k])]

RECURSIVE DigitsWithUnderscores(_)
\* the digit part of an integer literal accepted by int(): digits, with single
\* underscores allowed between digits
DigitsWithUnderscores(s) ==
    IF s = <<>> THEN FALSE
    ELSE IF ~IsDigit(Head(s)) THEN FALSE
    ELSE IF Len(s) = 1 THEN TRUE
    ELSE IF s[2] = "_" THEN DigitsWithUnderscores(Slice(s, 2))
    ELSE DigitsWithUnderscores(Tail(s))

\* TRUE when int(s) returns, FALSE when it raises ValueError: int() strips
\* surrounding whitespace, takes an optional sign, then digits with underscores
IntParses(s) ==
    LET t == Strip(s)
        u == IF t # <<>> /\ Head(t) \in {"+", "-"} THEN Tail(t) ELSE t
    IN DigitsWithUnderscores(u)

RECURSIVE SplitLines(_)
\* str.splitlines(): split at "\n", "\r" and "\r\n"; no empty last line after a
\* final line break
SplitLines(md) ==
    IF md = <<>> THEN <<>>
    ELSE LET brk == {k \in 1..Len(md) : md[k] \in {"\n", "\r"}}
         IN IF brk = {} THEN <<md>>
            ELSE LET k == CHOOSE x \in brk : \A y \in brk : x <= y
                     w == IF md[k] = "\r" /\ k < Len(md) /\ md[k + 1] = "\n" THEN 2 ELSE 1
                 IN <<SubSeq(md, 1, k - 1)>> \o SplitLines(Slice(md, k - 1 + w))

RECURSIVE JoinNewline(_)
\* "\n".join(ls): the text whose lines are ls
JoinNewline(ls) ==
    IF ls = <<>> THEN <<>>
    ELSE IF Len(ls) = 1 THEN ls[1]
    ELSE ls[1] \o <<"\n">> \o JoinNewline(Tail(ls))

----------------------------------------------------------------------------
(* BlockType and MdBlock *)

\* BlockType.HEADING1 .. BlockType.HEADING6, by level
HeadingKind(level) ==
    CASE level = 1 -> "heading1"
      [] level = 2 -> "heading2"
      [] level = 3 -> "heading3"
      [] level = 4 -> "heading4"
      [] level = 5 -> "heading5"
      [] level = 6 -> "heading6"

HeadingKinds == {"heading1", "heading2", "heading3", "heading4", "heading5", "heading6"}

\* MdBlock(kind, lines, language); language None is <<>>
MdBlock(kind, ls, language) == [kind |-> kind, lines |-> ls, language |-> language]

None == <<>>

----------------------------------------------------------------------------
(* The methods of the parser object, as functions from self to self *)

\* MarkdownParser.__init__
NewParser ==
    [blocks |-> <<>>, para_buf |-> <<>>, bullet_buf |-> <<>>,
     ordered_list_buf |-> <<>>, quote_buf |-> <<>>,
     code_lines |-> <<>>, in_code |-> FALSE, code_language |-> None,
     src |-> [para |-> <<>>, bullet |-> <<>>, ordered |-> <<>>, quote |-> <<>>, code |-> <<>>],
     block_src |-> <<>>]

\* self.blocks.append(b), with the lines b was built from
Emit(p, b, from) ==
    [p EXCEPT !.blocks = Append(@, b), !.block_src = Append(@, from)]

\* flush_paragraph as it would be if it copied the buffer into the block, the
\* way the list flushes do, instead of joining it into one text
flush_paragraph_copies_buffer(p) ==
    IF p.para_buf = <<>> THEN p
    ELSE [Emit(p, MdBlock("para", StripEach(p.para_buf), None), p.src.para)
            EXCEPT !.para_buf = <<>>, !.src.para = <<>>]

\* flush_paragraph as it would be if it joined the lines without stripping each
flush_paragraph_without_line_strip(p) ==
    IF p.para_buf = <<>> THEN p
    ELSE LET text == Strip(JoinSpace(p.para_buf))
             q == IF text # <<>>
                  THEN Emit(p, MdBlock("para", <<text>>, None), p.src.para)
                  ELSE p
         IN [q EXCEPT !.para_buf = <<>>, !.src.para = <<>>]

\* MarkdownParser.flush_paragraph
flush_paragraph(p) ==
    IF p.para_buf = <<>> THEN p
    ELSE LET text == Strip(JoinSpace(StripEach(p.para_buf)))
             q == IF text # <<>>
                  THEN Emit(p, MdBlock("para", <<text>>, None), p.src.para)
                  ELSE p
         IN [q EXCEPT !.para_buf = <<>>, !.src.para = <<>>]

\* flush_bullets as it would be without self.bullet_buf.clear()
flush_bullets_without_clear(p) ==
    IF p.bullet_buf # <<>>
    THEN Emit(p, MdBlock("bullets", p.bullet_buf, None), p.src.bullet)
    ELSE p

\* MarkdownParser.flush_bullets
flush_bullets(p) ==
    IF p.bullet_buf # <<>>
    THEN [Emit(p, MdBlock("bullets", p.bullet_buf, None), p.src.bullet)
            EXCEPT !.bullet_buf = <<>>, !.src.bullet = <<>>]
    ELSE p

\* MarkdownParser.flush_ordered_list
flush_ordered_list(p) ==
    IF p.ordered_list_buf # <<>>
    THEN [Emit(p, MdBlock("ordered_list", p.ordered_list_buf, None), p.src.ordered)
            EXCEPT !.ordered_list_buf = <<>>, !.src.ordered = <<>>]
    ELSE p

\* flush_quotes as it would be without the .strip() of the joined text
flush_quotes_without_strip(p) ==
    IF p.quote_buf # <<>>
    THEN [Emit(p, MdBlock("quote", <<JoinSpace(p.quote_buf)>>, None), p.src.quote)
            EXCEPT !.quote_buf = <<>>, !.src.quote = <<>>]
    ELSE p

\* MarkdownParser.flush_quotes
flush_quotes(p) ==
    IF p.quote_buf # <<>>
    THEN [Emit(p, MdBlock("quote", <<Strip(JoinSpace(p.quote_buf))>>, None), p.src.quote)
            EXCEPT !.quote_buf = <<>>, !.src.quote = <<>>]
    ELSE p

\* flush_all as it would be without self.flush_quotes()
flush_all_without_quotes(p) == flush_ordered_list(flush_bullets(flush_paragraph(p)))

\* MarkdownParser.flush_all
flush_all(p) == flush_quotes(flush_ordered_list(flush_bullets(flush_paragraph(p))))

\* the number of leading "#" of s: the for loop of parse_heading
HashRun(s) == Len(s) - Len(LStripChar(s, "#"))

\* stripped[k] with a 0-based index; IndexError when k is out of range
GetItem(s, k) == IF k >= 0 /\ k < Len(s) THEN <<s[k + 1]>> ELSE IndexError

\* parse_heading as it would be without the test for the space after the "#" run
parse_heading_without_space_test(line) ==
    LET stripped == LStrip(line)
        level == HashRun(stripped)
    IN IF ~StartsWith(stripped, <<"#">>) THEN 0
       ELSE IF level = 0 \/ level > 6 THEN 0
       ELSE level

\* what parse_heading gives when stripped[level] raises IndexError
Raises == -1

\* parse_heading as it would be without the test len(stripped) <= level
parse_heading_without_length_test(line) ==
    LET stripped == LStrip(line)
        level == HashRun(stripped)
    IN IF ~StartsWith(stripped, <<"#">>) THEN 0
       ELSE IF level = 0 \/ level > 6 THEN 0
       ELSE IF GetItem(stripped, level) = IndexError THEN Raises
       ELSE IF GetItem(stripped, level) # <<" ">> THEN 0
       ELSE level

\* MarkdownParser.parse_heading: the level 1..6 of a heading line, 0 for None,
\* Raises when the method raises
parse_heading(line) ==
    LET stripped == LStrip(line)
        level == HashRun(stripped)
    IN IF ~StartsWith(stripped, <<"#">>) THEN 0
       ELSE IF level = 0 \/ level > 6 THEN 0
       ELSE IF Len(stripped) <= level THEN 0
       ELSE IF GetItem(stripped, level) = IndexError THEN Raises
       ELSE IF GetItem(stripped, level) # <<" ">> THEN 0
       ELSE level

----------------------------------------------------------------------------
(* Line classification: the if-chain of the loop body of parse, in order *)

\* the backtick character (a TLA+ string cannot hold it)
BT == "backtick"

\* three backticks
Fence == <<BT, BT, BT>>

\* s.strip().startswith(three backticks)
IsFence(s) == StartsWith(Strip(s), Fence)

\* not s.strip()
IsBlank(s) == Strip(s) = <<>>

\* s.lstrip().startswith("- ") or s.lstrip().startswith("* ")
IsBullet(s) == StartsWith(LStrip(s), <<"-", " ">>) \/ StartsWith(LStrip(s), <<"*", " ">>)

\* the ordered-list test as it would be without the int() conversion
IsOrdered_without_int(s) ==
    LET stripped == LStrip(s)
        dot_pos == Find(stripped, <<".", " ">>)
    IN /\ stripped # <<>>
       /\ IsDigit(stripped[1])
       /\ dot_pos > 0
       /\ dot_pos < 10

\* the ordered-list test: stripped[0].isdigit(), 0 < dot_pos < 10, and
\* int(stripped[:dot_pos]) does not raise ValueError
IsOrdered(s) ==
    LET stripped == LStrip(s)
        dot_pos == Find(stripped, <<".", " ">>)
    IN /\ stripped # <<>>
       /\ IsDigit(stripped[1])
       /\ dot_pos > 0
       /\ dot_pos < 10
       /\ IntParses(Prefix(stripped, dot_pos))

\* s.lstrip().startswith("> ")
IsQuote(s) == StartsWith(LStrip(s), <<">", " ">>)

\* the branch of the loop body that handles line s when self.in_code is incode
ClassOf(s, incode) ==
    IF IsFence(s) THEN (IF incode THEN "fence_close" ELSE "fence_open")
    ELSE IF incode THEN "code"
    ELSE IF IsBlank(s) THEN "blank"
    ELSE IF parse_heading(s) # 0 THEN "heading"
    ELSE IF IsBullet(s) THEN "bullet"
    ELSE IF IsOrdered(s) THEN "ordered"
    ELSE IF IsQuote(s) THEN "quote"
    ELSE "para"

----------------------------------------------------------------------------
(* The scan *)

\* raw = lines[i]; s = raw.rstrip("\n")
Cur == RStripChar(lines[i + 1], "\n")

\* the loop condition and the branch taken
At(class) == pc = "scan" /\ i < Len(lines) /\ ClassOf(Cur, in_code) = class

\* i += 1; continue
Advance ==
    /\ i' = i + 1
    /\ seen' = Append(seen, i + 1)
    /\ pc' = pc
    /\ lines' = lines
    /\ UNCHANGED <<calls, font, build>>

\* an exception leaves parse: the fields of self stay as they are
Raise == pc' = "raised" /\ UNCHANGED <<lines, i, seen, self, calls, font, build>>

\* the fence-close branch as it would be without self.code_language = None
close_fence_keeps_language(p) ==
    LET language == IF p.code_language # None THEN p.code_language ELSE None
        q == Emit(p, MdBlock("code", p.code_lines, language), p.src.code)
    IN [q EXCEPT !.code_lines = <<>>, !.src.code = <<>>, !.in_code = FALSE]

\* the fence-close branch as it would be without self.in_code = False
close_fence_keeps_in_code(p) ==
    LET language == IF p.code_language # None THEN p.code_language ELSE None
        q == Emit(p, MdBlock("code", p.code_lines, language), p.src.code)
    IN [q EXCEPT !.code_lines = <<>>, !.src.code = <<>>, !.code_language = None]

\* the fence branch with in_code set: the code block ends
close_fence(p) ==
    LET language == IF p.code_language # None THEN p.code_language ELSE None
        q == Emit(p, MdBlock("code", p.code_lines, language), p.src.code)
    IN [q EXCEPT !.code_lines = <<>>, !.src.code = <<>>,
                 !.code_language = None, !.in_code = FALSE]

FenceClose == At("fence_close") /\ self' = close_fence(self) /\ Advance

\* the language tag of an opening fence s: s.strip()[3:].strip()
lang_part(s) == Strip(Slice(Strip(s), 3))

\* the fence branch with in_code clear: a code block starts
open_fence(p, s) ==
    LET q == flush_all(p)
        r == IF lang_part(s) # <<>>
             THEN [q EXCEPT !.code_language = <<SplitFirst(lang_part(s))>>]
             ELSE q
    IN [r EXCEPT !.in_code = TRUE]

FenceOpen ==
    /\ At("fence_open")
    /\ IF lang_part(Cur) # <<>> /\ SplitFirst(lang_part(Cur)) = IndexError
       THEN Raise
       ELSE self' = open_fence(self, Cur) /\ Advance

\* the in_code branch as it would be if it stored the line stripped
code_line_stripped(p, s, n) ==
    [p EXCEPT !.code_lines = Append(@, Strip(s)), !.src.code = Append(@, n)]

\* inside a code block: self.code_lines.append(s)
code_line(p, s, n) == [p EXCEPT !.code_lines = Append(@, s), !.src.code = Append(@, n)]

CodeLine == At("code") /\ self' = code_line(self, Cur, i + 1) /\ Advance

\* a blank line
BlankLine == At("blank") /\ self' = flush_all(self) /\ Advance

\* the text of a heading line: s.lstrip("#").lstrip().strip()
heading_text(s) == Strip(LStrip(LStripChar(s, "#")))

\* the heading branch
heading_line(p, s, n) ==
    Emit(flush_all(p), MdBlock(HeadingKind(parse_heading(s)), <<heading_text(s)>>, None), <<n>>)

HeadingLine ==
    /\ At("heading")
    /\ IF parse_heading(Cur) = Raises
       THEN Raise
       ELSE self' = heading_line(self, Cur, i + 1) /\ Advance

\* the bullet branch as it would be if it called flush_all, bullets included
bullet_line_flushes_bullets(p, s, n) ==
    LET q == flush_all(p)
    IN [q EXCEPT !.bullet_buf = Append(@, Strip(Slice(LStrip(s), 2))),
                 !.src.bullet = Append(@, n)]

\* the bullet branch as it would be without self.flush_paragraph()
bullet_line_without_flush_paragraph(p, s, n) ==
    LET q == flush_ordered_list(flush_quotes(p))
    IN [q EXCEPT !.bullet_buf = Append(@, Strip(Slice(LStrip(s), 2))),
                 !.src.bullet = Append(@, n)]

\* the bullet branch
bullet_line(p, s, n) ==
    LET q == flush_ordered_list(flush_quotes(flush_paragraph(p)))
        marker_len == 2
    IN [q EXCEPT !.bullet_buf = Append(@, Strip(Slice(LStrip(s), marker_len))),
                 !.src.bullet = Append(@, n)]

BulletLine == At("bullet") /\ self' = bullet_line(self, Cur, i + 1) /\ Advance

\* the ordered-list branch
ordered_line(p, s, n) ==
    LET stripped == LStrip(s)
        dot_pos == Find(stripped, <<".", " ">>)
        q == flush_bullets(flush_quotes(flush_paragraph(p)))
    IN [q EXCEPT !.ordered_list_buf = Append(@, Strip(Slice(stripped, dot_pos + 2))),
                 !.src.ordered = Append(@, n)]

OrderedLine == At("ordered") /\ self' = ordered_line(self, Cur, i + 1) /\ Advance

\* the quote branch
quote_line(p, s, n) ==
    LET q == flush_ordered_list(flush_bullets(flush_paragraph(p)))
    IN [q EXCEPT !.quote_buf = Append(@, Strip(Slice(LStrip(s), 2))),
                 !.src.quote = Append(@, n)]

QuoteLine == At("quote") /\ self' = quote_line(self, Cur, i + 1) /\ Advance

\* the paragraph default
para_line(p, s, n) ==
    LET q == flush_quotes(flush_ordered_list(flush_bullets(p)))
    IN [q EXCEPT !.para_buf = Append(@, s), !.src.para = Append(@, n)]

ParaLine == At("para") /\ self' = para_line(self, Cur, i + 1) /\ Advance

\* the end of the loop as it would be if it closed a code block left open
Finish_closes_open_code ==
    /\ pc = "scan"
    /\ i >= Len(lines)
    /\ self' = flush_all(IF in_code THEN close_fence(self) ELSE self)
    /\ pc' = "done"
    /\ UNCHANGED <<lines, i, seen, calls, font, build>>

\* the end of the loop: the final flush_all and return self.blocks
Finish ==
    /\ pc = "scan"
    /\ i >= Len(lines)
    /\ self' = flush_all(self)
    /\ pc' = "done"
    /\ UNCHANGED <<lines, i, seen, calls, font, build>>

----------------------------------------------------------------------------
(* The font cache *)

\* the module globals as the import leaves them: _FONT_REGISTERED = False,
\* _FONT_NAME = "Helvetica"; attempts and log are history: the calls of
\* pdfmetrics.registerFont made, and the argument and return value of every
\* call of _register_font
NewFont == [registered |-> FALSE, name |-> "Helvetica", attempts |-> <<>>, log |-> <<>>]

\* _FONT_REGISTERED
_FONT_REGISTERED == font.registered
\* _FONT_NAME
_FONT_NAME == font.name

\* DEFAULT_CJK_FONT_PATHS
DEFAULT_CJK_FONT_PATHS ==
    << "/usr/share/fonts/truetype/droid/DroidSansFallbackFull.ttf",
       "/usr/share/fonts/truetype/wqy/wqy-microhei.ttc",
       "/usr/share/fonts/opentype/noto/NotoSansCJK-Regular.ttc",
       "/System/Library/Fonts/PingFang.ttc",
       "/usr/share/fonts/truetype/arphic/uming.ttc" >>

\* font_path.endswith(".ttc"), for the paths above
EndsWithTtc(font_path) ==
    font_path \in {DEFAULT_CJK_FONT_PATHS[k] : k \in 2..5}

\* _pick_first_existing(paths), where os.path.exists holds of the paths in
\* existing: the first such path, or None
_pick_first_existing(paths, existing) ==
    LET hits == {k \in 1..Len(paths) : paths[k] \in existing}
    IN IF hits = {} THEN None
       ELSE <<paths[CHOOSE k \in hits : \A m \in hits : k <= m]>>

\* return name from a call made with font_name, noted in the log
Return(f, font_name, name) ==
    [f EXCEPT !.log = Append(@, [font_name |-> font_name, returned |-> name])]

\* pdfmetrics.registerFont(TTFont(font_name, font_path[, subfontIndex=0])),
\* noted in attempts; raises says whether it raised
RegisterFontAttempt(f, font_name, font_path, raises) ==
    [f EXCEPT !.attempts = Append(@, [font_name |-> font_name,
                                       font_path |-> font_path,
                                       subfontIndex |-> IF EndsWithTtc(font_path)
                                                        THEN <<0>> ELSE None,
                                       raised |-> raises])]

\* _register_font as it would be if the except branch left _FONT_REGISTERED
\* unset
_register_font_retries_after_failure(f, font_name, existing, raises) ==
    IF f.registered THEN Return(f, font_name, f.name)
    ELSE LET font_path == _pick_first_existing(DEFAULT_CJK_FONT_PATHS, existing)
         IN IF font_path = None
            THEN Return([f EXCEPT !.name = "Helvetica", !.registered = TRUE],
                        font_name, "Helvetica")
            ELSE LET g == RegisterFontAttempt(f, font_name, font_path[1], raises)
                 IN IF ~raises
                    THEN Return([g EXCEPT !.name = font_name, !.registered = TRUE],
                                font_name, font_name)
                    ELSE Return([g EXCEPT !.name = "Helvetica"],
                                font_name, "Helvetica")

\* _register_font(font_name), where existing are the font files on disk and
\* raises says whether registerFont raises
_register_font(f, font_name, existing, raises) ==
    IF f.registered THEN Return(f, font_name, f.name)
    ELSE LET font_path == _pick_first_existing(DEFAULT_CJK_FONT_PATHS, existing)
         IN IF font_path = None
            THEN Return([f EXCEPT !.name = "Helvetica", !.registered = TRUE],
                        font_name, "Helvetica")
            ELSE LET g == RegisterFontAttempt(f, font_name, font_path[1], raises)
                 IN IF ~raises
                    THEN Return([g EXCEPT !.name = font_name, !.registered = TRUE],
                                font_name, font_name)
                    ELSE Return([g EXCEPT !.name = "Helvetica", !.registered = TRUE],
                                font_name, "Helvetica")

\* the font files that may be on disk
FontFiles == {DEFAULT_CJK_FONT_PATHS[k] : k \in 1..Len(DEFAULT_CJK_FONT_PATHS)}

\* the font_name arguments of the calls: the default and two others
FontNames == {"CJKFont", "Helvetica", "Song"}

----------------------------------------------------------------------------
(* build_pdf_from_files *)

\* before the call
NewBuild ==
    [pc |-> "idle", input_paths |-> <<>>, k |-> 0, processed_count |-> 0,
     story |-> <<>>, exception |-> None]

\* the names p.name of the input paths
FileNames == {"README.md", "LICENSE", "license"}

\* p.name.upper()
Upper(name) ==
    CASE name = "README.md" -> "README.MD"
      [] name = "LICENSE" -> "LICENSE"
      [] name = "license" -> "LICENSE"

\* an input path and what is on disk behind it: nothing, a file that cannot
\* be read, or a file that can
InputFiles == [name : FileNames, on_disk : {"missing", "unreadable", "readable"}]

\* p.exists()
Exists(p) == p.on_disk # "missing"

\* the exception that leaves build_pdf_from_files
Raised(b, exception) == [b EXCEPT !.pc = "raised", !.exception = <<exception>>]

\* the body of the for loop for a file that was read: a Spacer between
\* files, then the file as code (LICENSE) or as Markdown
AppendFile(b, p) ==
    [b EXCEPT !.story = @ \o (IF b.processed_count > 0 THEN <<"Spacer">> ELSE <<>>)
                          \o <<[flowables |-> IF Upper(p.name) = "LICENSE"
                                              THEN "text_as_code" ELSE "markdown",
                                title |-> IF Upper(p.name) = "LICENSE"
                                          THEN "LICENSE" ELSE p.name]>>,
              !.processed_count = @ + 1,
              !.k = @ + 1]

----------------------------------------------------------------------------
(* The inputs *)

\* the lines of the general documents: one or two lines for every branch of
\* the loop body
Vocab ==
    { <<>>,
      <<"a">>,
      <<" ", "b", " ">>,
      <<"#", " ", "a">>,
      <<"-", " ", "a">>,
      <<" ", "*", " ", "b", " ">>,
      <<"1", ".", " ", "a">>,
      <<">", " ", "q">>,
      Fence,
      <<BT, BT, BT, "p", "y", " ", "x">> }

\* the lines of the short documents: markers with nothing after them, and the
\* near misses of each marker
EdgeVocab ==
    { <<" ", "#", "#", " ", "b">>,
      <<"#", " ">>,
      <<"#">>,
      <<"#", "#", "#", "#", "#", "#", "#", " ", "a">>,
      <<"-", " ">>,
      <<"1", " ", ".", " ", "a">>,
      <<"1", "_", "0", ".", " ", "a">>,
      <<"3", ".", "5", ".", " ", "a">>,
      <<"1", "2", "3", "4", "5", "6", "7", "8", "9", "0", ".", " ", "a">>,
      <<"1", ".", " ">>,
      <<">", " ">>,
      <<" ", BT, BT, BT, " ", "p", "y">> }

\* the lines of the documents that exercise code blocks at length
FenceVocab == { <<>>, <<"a">>, Fence, <<BT, BT, BT, "p", "y", " ", "x">> }

\* all sequences over S of length at most n
SeqsUpTo(S, n) == UNION {[1..k -> S] : k \in 0..n}

\* the texts given to parse
Texts ==
    {JoinNewline(ls) : ls \in SeqsUpTo(Vocab, MaxLines)
                             \cup SeqsUpTo(Vocab \cup EdgeVocab, MaxEdgeLines)
                             \cup SeqsUpTo(FenceVocab, MaxFenceLines)}

\* parser = MarkdownParser(): the state after construction
Init ==
    /\ lines = <<>>
    /\ i = 0
    /\ pc = "new"
    /\ seen = <<>>
    /\ self = NewParser
    /\ calls = 0
    /\ font = NewFont
    /\ build = NewBuild

\* parser.parse(md) up to the loop: lines = md.splitlines(); i = 0
ParseCall ==
    /\ pc = "new"
    /\ \E md \in Texts : lines' = SplitLines(md)
    /\ i' = 0
    /\ pc' = "scan"
    /\ calls' = calls + 1
    /\ UNCHANGED <<seen, self, font, build>>

Next ==
    \/ ParseCall
    \/ FenceClose
    \/ FenceOpen
    \/ CodeLine
    \/ BlankLine
    \/ HeadingLine
    \/ BulletLine
    \/ OrderedLine
    \/ QuoteLine
    \/ ParaLine
    \/ Finish

Spec == Init /\ [][Next]_vars

----------------------------------------------------------------------------
(* A MarkdownParser object used for more than one call of parse *)

\* the lines of the texts of a later call
ReuseVocab == { <<"a">>, Fence }

\* the texts given to a later call of parse
ReuseTexts == {JoinNewline(ls) : ls \in SeqsUpTo(ReuseVocab, MaxReuseLines)}

\* parser.parse(md) on an object whose parse has returned: lines and i are
\* locals of the new call; nothing in parse assigns self.blocks, the buffers,
\* self.in_code or self.code_language before the loop
ParseAgain ==
    /\ pc = "done"
    /\ calls < MaxCalls
    /\ \E md \in ReuseTexts : lines' = SplitLines(md)
    /\ i' = 0
    /\ pc' = "scan"
    /\ calls' = calls + 1
    /\ seen' = <<>>
    /\ UNCHANGED <<self, font, build>>

NextReuse == Next \/ ParseAgain

SpecReuse == Init /\ [][NextReuse]_vars

----------------------------------------------------------------------------
(* Calls of _register_font *)

\* _register_font(font_name): the files on disk and the outcome of
\* registerFont are the environment's, and may differ from call to call
RegisterFont ==
    /\ Len(font.log) < MaxFontCalls
    /\ \E font_name \in FontNames, existing \in SUBSET FontFiles, raises \in BOOLEAN :
           font' = _register_font(font, font_name, existing, raises)
    /\ UNCHANGED <<lines, i, pc, self, seen, calls, build>>

NextFont == RegisterFont

SpecFont == Init /\ [][NextFont]_vars

----------------------------------------------------------------------------
(* One call of build_pdf_from_files *)

\* the parser, and the parse calls made inside _append_markdown, are left out
BuildFrame == UNCHANGED <<lines, i, pc, self, seen, calls>>

\* build_pdf_from_files(input_paths, output_path, title): the test of
\* input_paths
BuildCall ==
    /\ build.pc = "idle"
    /\ \E paths \in SeqsUpTo(InputFiles, MaxPaths) :
           build' = IF paths = <<>>
                    THEN Raised([build EXCEPT !.input_paths = paths], "ValueError")
                    ELSE [build EXCEPT !.input_paths = paths, !.pc = "register_font"]
    /\ UNCHANGED font
    /\ BuildFrame

\* _register_font()
BuildRegisterFont ==
    /\ build.pc = "register_font"
    /\ \E existing \in SUBSET FontFiles, raises \in BOOLEAN :
           font' = _register_font(font, "CJKFont", existing, raises)
    /\ build' = [build EXCEPT !.pc = "mkdir"]
    /\ BuildFrame

\* output_path.parent.mkdir(parents=True, exist_ok=True), which may raise an
\* OSError, and the construction of doc, story and processed_count
BuildMkdir ==
    /\ build.pc = "mkdir"
    /\ \E fails \in BOOLEAN :
           build' = IF fails THEN Raised(build, "OSError")
                    ELSE [build EXCEPT !.pc = "loop"]
    /\ UNCHANGED font
    /\ BuildFrame

\* the for loop on a path that does not exist: a warning, and continue
BuildSkipMissing ==
    /\ build.pc = "loop"
    /\ build.k < Len(build.input_paths)
    /\ ~Exists(build.input_paths[build.k + 1])
    /\ build' = [build EXCEPT !.k = @ + 1]
    /\ UNCHANGED font
    /\ BuildFrame

\* the for loop on a path that exists: read_text, re-raised as IOError when
\* it fails, else the file is appended to story; for the first file
\* _STYLES_CACHE is still None and _make_styles calls _register_font()
BuildReadFile ==
    /\ build.pc = "loop"
    /\ build.k < Len(build.input_paths)
    /\ Exists(build.input_paths[build.k + 1])
    /\ build' = IF build.input_paths[build.k + 1].on_disk = "unreadable"
                THEN Raised(build, "IOError")
                ELSE AppendFile(build, build.input_paths[build.k + 1])
    /\ \E existing \in SUBSET FontFiles, raises \in BOOLEAN :
           font' = IF /\ build.input_paths[build.k + 1].on_disk = "readable"
                      /\ build.processed_count = 0
                   THEN _register_font(font, "CJKFont", existing, raises)
                   ELSE font
    /\ BuildFrame

\* after the loop with processed_count == 0
BuildNothingProcessed ==
    /\ build.pc = "loop"
    /\ build.k = Len(build.input_paths)
    /\ build.processed_count = 0
    /\ build' = Raised(build, "ValueError")
    /\ UNCHANGED font
    /\ BuildFrame

\* doc.build(story), re-raised as IOError when it fails
BuildDocument ==
    /\ build.pc = "loop"
    /\ build.k = Len(build.input_paths)
    /\ build.processed_count > 0
    /\ \E fails \in BOOLEAN :
           build' = IF fails THEN Raised(build, "IOError")
                    ELSE [build EXCEPT !.pc = "returned"]
    /\ UNCHANGED font
    /\ BuildFrame

NextBuild ==
    \/ BuildCall
    \/ BuildRegisterFont
    \/ BuildMkdir
    \/ BuildSkipMissing
    \/ BuildReadFile
    \/ BuildNothingProcessed
    \/ BuildDocument

SpecBuild == Init /\ [][NextBuild]_vars

----------------------------------------------------------------------------
(* parse as a function of its input, for statements about a second parse *)

\* one iteration of the loop body on line s, the n-th line
loop_body(p, s, n) ==
    CASE ClassOf(s, p.in_code) = "fence_close" -> close_fence(p)
      [] ClassOf(s, p.in_code) = "fence_open" -> open_fence(p, s)
      [] ClassOf(s, p.in_code) = "code" -> code_line(p, s, n)
      [] ClassOf(s, p.in_code) = "blank" -> flush_all(p)
      [] ClassOf(s, p.in_code) = "heading" -> heading_line(p, s, n)
      [] ClassOf(s, p.in_code) = "bullet" -> bullet_line(p, s, n)
      [] ClassOf(s, p.in_code) = "ordered" -> ordered_line(p, s, n)
      [] ClassOf(s, p.in_code) = "quote" -> quote_line(p, s, n)
      [] ClassOf(s, p.in_code) = "para" -> para_line(p, s, n)

RECURSIVE scan(_, _, _)
\* the while loop from line k on
scan(p, ls, k) ==
    IF k > Len(ls) THEN p ELSE scan(loop_body(p, RStripChar(ls[k], "\n"), k), ls, k + 1)

\* parse_markdown(md): the blocks a new parser returns for md
parse_markdown(md) == flush_all(scan(NewParser, SplitLines(md), 1)).blocks

----------------------------------------------------------------------------
(* What the statements below say about the input, read off the lines alone *)

\* the lines the loop body has run on
Processed == 1..i

\* line k lies inside a code block: an odd number of fence lines precede it
InCodeAt(k) == Cardinality({j \in 1..(k - 1) : IsFence(lines[j])}) % 2 = 1

\* the number of leading ASCII digits of s
RECURSIVE DigitRun(_)
DigitRun(s) == IF s # <<>> /\ IsDigit(Head(s)) THEN 1 + DigitRun(Tail(s)) ELSE 0

\* s, left-stripped, is 1 to 6 "#" followed by a space
HeadingShaped(s) ==
    LET t == LStrip(s)
    IN HashRun(t) \in 1..6 /\ Len(t) > HashRun(t) /\ t[HashRun(t) + 1] = " "

\* s, left-stripped, starts with a "#" run that is no heading marker
HashNotHeading(s) == StartsWith(LStrip(s), <<"#">>) /\ ~HeadingShaped(s)

\* s, left-stripped, is 1 to 9 ASCII digits immediately followed by ". "
OrderedShaped(s) ==
    LET t == LStrip(s)
    IN DigitRun(t) \in 1..9 /\ StartsWith(Slice(t, DigitRun(t)), <<".", " ">>)

\* the indices of the blocks built from line k
BlocksOf(k) == {n \in 1..Len(blocks) : \E m \in 1..Len(block_src[n]) : block_src[n][m] = k}

----------------------------------------------------------------------------
(* C1 *)

\* C1: no emitted block is empty: every block has at least one entry in lines
\* and some entry that is not blank.  The code emits Heading, Bullets,
\* OrderedList and Quote blocks whose only entry is "" and Code blocks with no
\* entry at all, so this is violated.
C1_NoEmptyBlock ==
    \A n \in 1..Len(blocks) :
        /\ blocks[n].lines # <<>>
        /\ \E m \in 1..Len(blocks[n].lines) : ~IsBlank(blocks[n].lines[m])

----------------------------------------------------------------------------
(* C2 *)

\* C2: every heading line outside a code block (also one with leading
\* whitespace) gives exactly one Heading block, of the level of its "#" run,
\* whose text is the rest of the line after the marker, trimmed.  The code
\* strips the "#" run from the line before it strips the leading whitespace,
\* so for an indented heading the marker stays in the text: violated.
C2_HeadingLevelAndText ==
    \A k \in Processed :
        (HeadingShaped(lines[k]) /\ ~InCodeAt(k)) =>
            LET t == LStrip(lines[k])
                level == HashRun(t)
                hs == {n \in BlocksOf(k) : blocks[n].kind \in HeadingKinds}
            IN /\ Cardinality(hs) = 1
               /\ \A n \in hs : /\ blocks[n].kind = HeadingKind(level)
                                /\ blocks[n].lines = <<Strip(Slice(t, level))>>

----------------------------------------------------------------------------
(* C3 *)

\* C3: a line is appended to the ordered-list buffer only if its left-stripped
\* content is 1 to 9 ASCII digits immediately followed by ". ".  The code
\* asks int() about the text before the first ". ", and int() accepts a
\* trailing space and underscores, so "1 . a" and "1_0. a" are items: violated.
C3_OrderedOnlyDigitsDotSpace ==
    /\ \A m \in 1..Len(src.ordered) : OrderedShaped(lines[src.ordered[m]])
    /\ \A n \in 1..Len(blocks) :
           blocks[n].kind = "ordered_list" =>
               \A m \in 1..Len(block_src[n]) : OrderedShaped(lines[block_src[n][m]])

----------------------------------------------------------------------------
(* C4 *)

\* parse has returned exactly one Paragraph block
OneParagraph == pc = "done" /\ Len(blocks) = 1 /\ blocks[1].kind = "para"

\* C4 as stated: whenever the result is exactly one Paragraph block with text
\* t, parsing the one-line document t gives that same block.  Violated: the
\* lines "#" and "a" are both plain, their paragraph is "# a", and "# a" is
\* a heading line.
C4_ParagraphRoundTrip ==
    OneParagraph => parse_markdown(blocks[1].lines[1]) = blocks

\* C4 as amended: whenever the result is exactly one Paragraph block with text
\* t, and t read as a line is itself a plain line (no fence, heading, bullet,
\* ordered-list or quote line), parsing the one-line document t gives that same
\* block.
C4_ParagraphRoundTripPlain ==
    (OneParagraph /\ ClassOf(blocks[1].lines[1], FALSE) = "para") =>
        parse_markdown(blocks[1].lines[1]) = blocks

\* a paragraph joined from two lines, one of them with surrounding whitespace,
\* whose text is a plain line
C4_Witness ==
    /\ OneParagraph
    /\ Len(block_src[1]) = 2
    /\ \E k \in 1..Len(lines) : lines[k] # <<>> /\ Strip(lines[k]) # lines[k]
    /\ ClassOf(blocks[1].lines[1], FALSE) = "para"

----------------------------------------------------------------------------
(* C5 *)

RECURSIVE Flatten(_)
\* the concatenation of a sequence of sequences
Flatten(ss) == IF ss = <<>> THEN <<>> ELSE Head(ss) \o Flatten(Tail(ss))

\* the indices of the contributing lines, block after block
Contributing == Flatten(block_src)

\* the contributing lines are lines of the input, strictly increasing within
\* each block and from each block to the next
SourceOrder ==
    /\ \A a \in 1..Len(Contributing) : Contributing[a] \in 1..Len(lines)
    /\ \A a, b \in 1..Len(Contributing) : a < b => Contributing[a] < Contributing[b]

\* the number of input lines that are not blank
NonBlankCount == Cardinality({k \in 1..Len(lines) : ~IsBlank(lines[k])})

\* C5 as stated: source order without duplication, and no more contributing
\* lines than non-blank input lines.  Violated: the blank lines between two
\* fences are lines of the Code block, so a fence pair around three blank
\* lines has three contributing lines and two non-blank lines.
C5_SourceOrderNonBlankCount ==
    SourceOrder /\ Len(Contributing) <= NonBlankCount

\* C5 as amended: source order without duplication (no line contributes to two
\* blocks or twice to one), and no more contributing lines than input lines.
C5_SourceOrderLineCount ==
    SourceOrder /\ Len(Contributing) <= Len(lines)

\* a result of several blocks, one of them built from several lines
C5_Witness ==
    /\ pc = "done"
    /\ Len(blocks) >= 2
    /\ \E n \in 1..Len(blocks) : Len(block_src[n]) >= 2

----------------------------------------------------------------------------
(* C6 *)

\* the buffers that hold something
ActiveBuffers ==
    {b \in {"para", "bullet", "ordered", "quote"} :
        CASE b = "para" -> para_buf # <<>>
          [] b = "bullet" -> bullet_buf # <<>>
          [] b = "ordered" -> ordered_list_buf # <<>>
          [] b = "quote" -> quote_buf # <<>>}

\* C6: at every line boundary at most one of the four buffers is non-empty,
\* and all four are empty while in_code is set.
C6_OneActiveBuffer ==
    /\ Cardinality(ActiveBuffers) <= 1
    /\ in_code => ActiveBuffers = {}

\* a bullet line after a paragraph line: the paragraph is a block, the bullet
\* is buffered
C6_Witness ==
    /\ bullet_buf # <<>>
    /\ blocks # <<>>
    /\ blocks[Len(blocks)].kind = "para"

----------------------------------------------------------------------------
(* C7 *)

\* the branches of the loop body
Classes ==
    {"fence_close", "fence_open", "code", "blank", "heading", "bullet", "ordered",
     "quote", "para"}

\* parse has returned, or it can take its next step: the call, the branch of
\* the loop body for the current line, or the final flush
CanStep ==
    \/ pc = "done"
    \/ pc = "new"
    \/ pc = "scan" /\ i >= Len(lines)
    \/ pc = "scan" /\ i < Len(lines) /\ \E c \in Classes : At(c)

\* C7: parse is total: no exception leaves it, the loop body runs on each line
\* once and in order, the scan is never stuck before parse returns, and parse
\* returns only after the last line.
C7_ParseIsTotal ==
    /\ pc # "raised"
    /\ i <= Len(lines)
    /\ seen = [k \in 1..i |-> k]
    /\ pc = "done" => i = Len(lines)
    /\ CanStep

\* parse has returned for a text with a malformed list prefix and an
\* unterminated fence
C7_Witness ==
    /\ pc = "done"
    /\ in_code
    /\ \E k \in 1..Len(lines) : StartsWith(lines[k], <<"3", ".", "5">>)

----------------------------------------------------------------------------
(* C8 *)

RECURSIVE FencesUpTo(_)
\* the indices of the fence lines among lines 1..n, in order
FencesUpTo(n) ==
    IF n = 0 THEN <<>>
    ELSE IF IsFence(lines[n]) THEN Append(FencesUpTo(n - 1), n)
    ELSE FencesUpTo(n - 1)

IsCode(b) == b.kind = "code"

\* the Code blocks emitted so far, in order
CodeBlocks == SelectSeq(blocks, IsCode)

\* the language an opening fence line names: the first whitespace-delimited
\* token after the three backticks, None when nothing but whitespace follows
FenceLanguage(s) ==
    LET rest == Strip(Slice(Strip(s), 3))
        stops == {k \in 1..Len(rest) : IsSpace(rest[k])}
        stop == IF stops = {} THEN Len(rest) + 1
                ELSE CHOOSE k \in stops : \A m \in stops : k <= m
    IN IF rest = <<>> THEN None ELSE <<SubSeq(rest, 1, stop - 1)>>

\* C8: the Code blocks are the fence pairs of the lines scanned so far, in
\* order: one block per pair, its lines the source lines strictly between the
\* two fences, verbatim, its language the one its own opening fence names.
C8_CodeBlocksAreFencePairs ==
    LET f == FencesUpTo(i)
    IN /\ Len(CodeBlocks) = Len(f) \div 2
       /\ \A j \in 1..Len(CodeBlocks) :
              /\ CodeBlocks[j].lines = SubSeq(lines, f[2 * j - 1] + 1, f[2 * j] - 1)
              /\ CodeBlocks[j].language = FenceLanguage(lines[f[2 * j - 1]])

\* two code blocks, the first with lines and a language, the second opened by a
\* fence that names none
C8_Witness ==
    /\ Len(CodeBlocks) = 2
    /\ CodeBlocks[1].lines # <<>>
    /\ CodeBlocks[1].language = <<<<"p", "y">>>>
    /\ CodeBlocks[2].language = None

----------------------------------------------------------------------------
(* C9 *)

\* t contains u
Contains(t, u) == \E k \in 0..(Len(t) - Len(u)) : SubSeq(t, k + 1, k + Len(u)) = u

\* line k gave no Heading block, and its text is part of a Paragraph block
InParagraphNotHeading(k) ==
    /\ \A n \in BlocksOf(k) : blocks[n].kind \notin HeadingKinds
    /\ \E n \in BlocksOf(k) : /\ blocks[n].kind = "para"
                              /\ Contains(blocks[n].lines[1], Strip(lines[k]))

\* C9 as stated: once parse has returned, every line that starts with a run of
\* more than 6 "#", or with a "#" run not followed by a space, has given no
\* Heading block and its text is in a Paragraph block.  Violated: inside a code
\* block such a line is a line of the Code block (or is dropped with an
\* unterminated fence).
C9_HashRunIsParagraph ==
    pc = "done" =>
        \A k \in 1..Len(lines) : HashNotHeading(lines[k]) => InParagraphNotHeading(k)

\* C9 as amended: the same for every such line outside a code block.
C9_HashRunOutsideCodeIsParagraph ==
    pc = "done" =>
        \A k \in 1..Len(lines) :
            (HashNotHeading(lines[k]) /\ ~InCodeAt(k)) => InParagraphNotHeading(k)

\* parse has returned for a text with a line of seven "#" and a line of one
\* bare "#", both outside a code block
C9_Witness ==
    /\ pc = "done"
    /\ \E k \in 1..Len(lines) : HashRun(LStrip(lines[k])) > 6 /\ ~InCodeAt(k)
    /\ \E k \in 1..Len(lines) : lines[k] = <<"#">> /\ ~InCodeAt(k)

----------------------------------------------------------------------------
(* C10 *)

\* line k is a bullet line outside a code block
BulletAt(k) ==
    /\ ~InCodeAt(k)
    /\ \/ StartsWith(LStrip(lines[k]), <<"-", " ">>)
       \/ StartsWith(LStrip(lines[k]), <<"*", " ">>)

\* the last line of the run of bullet lines that starts at line k, within 1..n
RunEnd(k, n) == CHOOSE e \in k..n :
                    /\ \A j \in k..e : BulletAt(j)
                    /\ e = n \/ ~BulletAt(e + 1)

\* the items of the bullet lines a..b: the text after the 2-character marker, trimmed
Items(a, b) == [j \in 1..(b - a + 1) |-> Strip(Slice(LStrip(lines[a + j - 1]), 2))]

RECURSIVE EndedRuns(_, _, _)
\* the item lists of the maximal runs of bullet lines within k..n, in order; a
\* run that reaches line n counts only when atEnd says the input has ended
EndedRuns(k, n, atEnd) ==
    IF k > n THEN <<>>
    ELSE IF ~BulletAt(k) THEN EndedRuns(k + 1, n, atEnd)
    ELSE LET e == RunEnd(k, n)
         IN (IF e < n \/ atEnd THEN <<Items(k, e)>> ELSE <<>>)
                \o EndedRuns(e + 1, n, atEnd)

IsBullets(b) == b.kind = "bullets"

\* the item lists of the Bullets blocks emitted so far, in order
BulletBlocks == LET bs == SelectSeq(blocks, IsBullets) IN [n \in 1..Len(bs) |-> bs[n].lines]

\* C10: the Bullets blocks are the maximal runs of bullet lines that have
\* ended, in order, one block per run and one item per line; a run that has
\* not ended is in the buffer and in no block.
C10_BulletRuns ==
    /\ BulletBlocks = EndedRuns(1, i, pc = "done")
    /\ (pc # "done" /\ i >= 1 /\ BulletAt(i)) =>
           \E a \in 1..i : /\ \A j \in a..i : BulletAt(j)
                           /\ a = 1 \/ ~BulletAt(a - 1)
                           /\ bullet_buf = Items(a, i)

\* a Bullets block of two items from a "-" line and an indented "*" line,
\* followed by a Paragraph block
C10_Witness ==
    /\ pc = "done"
    /\ \E n \in 1..(Len(blocks) - 1) :
           /\ blocks[n].kind = "bullets"
           /\ blocks[n].lines = <<<<"a">>, <<"b">>>>
           /\ blocks[n + 1].kind = "para"

----------------------------------------------------------------------------
(* C11 *)

\* s, left-stripped, starts with a digit and has a ". " whose preceding text
\* is not an integer literal
NotAnInteger(s) ==
    LET t == LStrip(s)
        d == Find(t, <<".", " ">>)
    IN /\ t # <<>>
       /\ IsDigit(t[1])
       /\ d > 0
       /\ ~IntParses(Prefix(t, d))

\* n-th entries of a source list that equal k
Places(from, k) == {m \in 1..Len(from) : from[m] = k}

\* line k went the way of a plain line: it is in no OrderedList block and not
\* in the ordered-list buffer, and the whole line is in the paragraph buffer
\* or in the text of a Paragraph block
TreatedAsParagraph(k) ==
    /\ Places(src.ordered, k) = {}
    /\ \A n \in BlocksOf(k) : blocks[n].kind # "ordered_list"
    /\ \/ \E m \in Places(src.para, k) : para_buf[m] = lines[k]
       \/ \E n \in BlocksOf(k) : /\ blocks[n].kind = "para"
                                 /\ Contains(blocks[n].lines[1], Strip(lines[k]))

\* C11 as stated: every processed line that starts with a digit and whose text
\* before the first ". " is not an integer is treated as a plain line: no
\* OrderedList block or item comes from it and the full line is paragraph
\* text.  Violated: inside a code block such a line is a line of the code.
C11_NonIntegerIsParagraph ==
    \A k \in Processed : NotAnInteger(lines[k]) => TreatedAsParagraph(k)

\* C11 as amended: the same for every such line outside a code block.
C11_NonIntegerOutsideCodeIsParagraph ==
    \A k \in Processed :
        (NotAnInteger(lines[k]) /\ ~InCodeAt(k)) => TreatedAsParagraph(k)

\* parse has returned for a text in which a paragraph line is followed by
\* "3.5. a": one Paragraph block holds both, and there is no other block
C11_Witness ==
    /\ pc = "done"
    /\ Len(lines) = 2
    /\ lines[1] = <<"a">>
    /\ NotAnInteger(lines[2])
    /\ blocks = <<MdBlock("para", <<<<"a", " ", "3", ".", "5", ".", " ", "a">>>>, None)>>

----------------------------------------------------------------------------
(* C12 *)

\* line k is a plain line: outside a code block, and no fence, blank, heading,
\* bullet, ordered-list or quote line
PlainAt(k) == ~InCodeAt(k) /\ ClassOf(lines[k], FALSE) = "para"

\* the last line of the run of plain lines that starts at line k, within 1..n
PlainRunEnd(k, n) == CHOOSE e \in k..n :
                         /\ \A j \in k..e : PlainAt(j)
                         /\ e = n \/ ~PlainAt(e + 1)

\* the lines a..b each trimmed, joined with a single space, the result trimmed
ParagraphText(a, b) ==
    Strip(JoinSpace([j \in 1..(b - a + 1) |-> Strip(lines[a + j - 1])]))

RECURSIVE PlainRuns(_, _, _)
\* the entry lists of the Paragraph blocks due for the maximal runs of plain
\* lines within k..n, in order: one entry per run, none for a blank text; a
\* run that reaches line n counts only when atEnd says the input has ended
PlainRuns(k, n, atEnd) ==
    IF k > n THEN <<>>
    ELSE IF ~PlainAt(k) THEN PlainRuns(k + 1, n, atEnd)
    ELSE LET e == PlainRunEnd(k, n)
         IN (IF (e < n \/ atEnd) /\ ParagraphText(k, e) # <<>>
             THEN <<<<ParagraphText(k, e)>>>> ELSE <<>>)
                \o PlainRuns(e + 1, n, atEnd)

IsParagraph(b) == b.kind = "para"

\* the entry lists of the Paragraph blocks emitted so far, in order
ParagraphBlocks ==
    LET bs == SelectSeq(blocks, IsParagraph) IN [n \in 1..Len(bs) |-> bs[n].lines]

\* C12: the Paragraph blocks are the maximal runs of plain lines that have
\* ended, in order: one block per run, with one entry, the lines each trimmed,
\* joined with a single space and trimmed again, and no block for a blank
\* text; a run that has not ended is in the buffer, line by line, and in no
\* block.
C12_ParagraphRuns ==
    /\ ParagraphBlocks = PlainRuns(1, i, pc = "done")
    /\ (pc # "done" /\ i >= 1 /\ PlainAt(i)) =>
           \E a \in 1..i : /\ \A j \in a..i : PlainAt(j)
                           /\ a = 1 \/ ~PlainAt(a - 1)
                           /\ para_buf = SubSeq(lines, a, i)

\* parse has returned one Paragraph block for three plain lines of which the
\* second had spaces around it: its one entry is the five characters "a b a"
C12_Witness ==
    /\ pc = "done"
    /\ Len(lines) = 3
    /\ lines[2] = <<" ", "b", " ">>
    /\ PlainAt(1) /\ PlainAt(2) /\ PlainAt(3)
    /\ Len(blocks) = 1
    /\ blocks[1] = MdBlock("para", <<ParagraphText(1, 3)>>, None)
    /\ Len(blocks[1].lines[1]) = 5

----------------------------------------------------------------------------
(* C13 *)

\* line k is a block-quote line outside a code block
QuoteAt(k) == ~InCodeAt(k) /\ StartsWith(LStrip(lines[k]), <<">", " ">>)

\* the last line of the run of quote lines that starts at line k, within 1..n
QuoteRunEnd(k, n) == CHOOSE e \in k..n :
                         /\ \A j \in k..e : QuoteAt(j)
                         /\ e = n \/ ~QuoteAt(e + 1)

\* the texts after the 2-character marker of the quote lines a..b, each trimmed
QuoteTexts(a, b) == [j \in 1..(b - a + 1) |-> Strip(Slice(LStrip(lines[a + j - 1]), 2))]

\* those texts joined with a single space, the result trimmed
QuoteText(a, b) == Strip(JoinSpace(QuoteTexts(a, b)))

RECURSIVE QuoteRuns(_, _, _)
\* the entry lists of the Quote blocks due for the maximal runs of quote lines
\* within k..n, in order; a run that reaches line n counts only when atEnd
\* says the input has ended
QuoteRuns(k, n, atEnd) ==
    IF k > n THEN <<>>
    ELSE IF ~QuoteAt(k) THEN QuoteRuns(k + 1, n, atEnd)
    ELSE LET e == QuoteRunEnd(k, n)
         IN (IF e < n \/ atEnd THEN <<<<QuoteText(k, e)>>>> ELSE <<>>)
                \o QuoteRuns(e + 1, n, atEnd)

IsQuoteBlock(b) == b.kind = "quote"

\* the entry lists of the Quote blocks emitted so far, in order
QuoteBlocks ==
    LET bs == SelectSeq(blocks, IsQuoteBlock) IN [n \in 1..Len(bs) |-> bs[n].lines]

----------------------------------------------------------------------------
(* C16 *)

\* the blocks a new parser returns for the lines ls
ParseLines(ls) == flush_all(scan(NewParser, ls, 1)).blocks

\* the opening fence left without a closing fence: the last fence line
OpenFence == LET f == FencesUpTo(Len(lines)) IN f[Len(f)]

\* the input has an opening fence with no closing fence
Unclosed == Len(FencesUpTo(Len(lines))) % 2 = 1

\* C16: when parse returns for an input whose last opening fence has no
\* closing fence, in_code is still set, the blocks returned are exactly the
\* blocks of the lines before that fence, no block is built from the fence
\* line or a later line, and the lines after it are left in code_lines.
C16_UnterminatedFenceDropped ==
    (pc = "done" /\ Unclosed) =>
        /\ in_code
        /\ blocks = ParseLines(SubSeq(lines, 1, OpenFence - 1))
        /\ \A k \in OpenFence..Len(lines) : BlocksOf(k) = {}
        /\ code_lines = SubSeq(lines, OpenFence + 1, Len(lines))

\* parse has returned with in_code set: a bullet line gave a block, the fence
\* after it was never closed and the line after the fence is in no block
C16_Witness ==
    /\ pc = "done"
    /\ in_code
    /\ Len(lines) = 3
    /\ OpenFence = 2
    /\ code_lines = <<lines[3]>>
    /\ lines[3] # <<>>
    /\ Len(blocks) = 1
    /\ blocks[1].kind = "bullets"

----------------------------------------------------------------------------
(* C17 *)

\* the loop body is about to run on a line that is no fence while in_code is set
InsideCodeBlock == pc = "scan" /\ in_code /\ i < Len(lines) /\ ~IsFence(lines[i + 1])

\* C17: a step on a line that is no fence, taken while in_code is set, appends
\* that line as it is to code_lines and changes neither the block list, the
\* paragraph, bullet, ordered-list and quote buffers, in_code nor
\* code_language.
C17_CodeLineFrame ==
    [][InsideCodeBlock =>
           /\ code_lines' = Append(code_lines, lines[i + 1])
           /\ blocks' = blocks
           /\ para_buf' = para_buf
           /\ bullet_buf' = bullet_buf
           /\ ordered_list_buf' = ordered_list_buf
           /\ quote_buf' = quote_buf
           /\ in_code' = in_code
           /\ code_language' = code_language]_vars

\* inside a code block that names a language, a blank line and a bullet line
\* with spaces around it have been appended as they are, and no block has
\* been emitted
C17_Witness ==
    /\ in_code
    /\ code_language # None
    /\ blocks = <<>>
    /\ code_lines = << <<>>, <<" ", "*", " ", "b", " ">> >>

----------------------------------------------------------------------------
(* C18 *)

\* C18: after every prefix of the input, in_code is set exactly when the
\* prefix holds an odd number of fence lines, and the number of Code blocks
\* emitted is half the number of fence lines, rounded down; what follows the
\* three backticks of a fence line makes no difference.
C18_FenceParity ==
    /\ in_code <=> Len(FencesUpTo(i)) % 2 = 1
    /\ Len(CodeBlocks) = Len(FencesUpTo(i)) \div 2

\* a code block has just been closed by a fence line that carries text after
\* its backticks, and a second one opened by a bare fence has been closed
\* the same way
C18_Witness ==
    /\ pc = "scan"
    /\ i = 4
    /\ ~in_code
    /\ Len(FencesUpTo(i)) = 4
    /\ lines[1] = Fence
    /\ lines[2] # Fence
    /\ lines[4] = lines[2]
    /\ Len(CodeBlocks) = 2

----------------------------------------------------------------------------
(* C19 *)

\* the next step flushes: the loop body is about to run on a blank line, a
\* heading line or an opening fence, or the input has ended
FlushStep ==
    /\ pc = "scan"
    /\ \/ i >= Len(lines)
       \/ ClassOf(lines[i + 1], in_code) \in {"blank", "heading", "fence_open"}

\* the next step is one on a heading line
HeadingStep == i < Len(lines) /\ ClassOf(lines[i + 1], in_code) = "heading"

\* the kinds of the blocks due from the buffers as they are, in flush order
KindsDue ==
    (IF para_buf # <<>> THEN <<"para">> ELSE <<>>)
        \o (IF bullet_buf # <<>> THEN <<"bullets">> ELSE <<>>)
        \o (IF ordered_list_buf # <<>> THEN <<"ordered_list">> ELSE <<>>)
        \o (IF quote_buf # <<>> THEN <<"quote">> ELSE <<>>)

\* C19: a step on a blank line, a heading line or an opening fence, and the
\* step that ends parse, leaves the four buffers empty, keeps the blocks
\* already emitted, and adds one block of its kind for each buffer that was
\* not empty, in flush order, none for an empty one (and after them the
\* Heading block, on a heading line).
C19_FlushEmptiesBuffers ==
    [][FlushStep =>
           LET own == IF HeadingStep THEN 1 ELSE 0
               added == SubSeq(blocks', Len(blocks) + 1, Len(blocks') - own)
           IN /\ para_buf' = <<>>
              /\ bullet_buf' = <<>>
              /\ ordered_list_buf' = <<>>
              /\ quote_buf' = <<>>
              /\ Len(blocks') >= Len(blocks) + own
              /\ SubSeq(blocks', 1, Len(blocks)) = blocks
              /\ [n \in 1..Len(added) |-> added[n].kind] = KindsDue]_vars

\* a heading line has just flushed a quote buffer that followed a paragraph:
\* the buffers are empty and the blocks are a Paragraph block, a Quote block
\* and the Heading block
C19_Witness ==
    /\ pc = "scan"
    /\ i = 3
    /\ QuoteAt(2)
    /\ [n \in 1..Len(blocks) |-> blocks[n].kind] = <<"para", "quote", "heading1">>
    /\ para_buf = <<>> /\ bullet_buf = <<>> /\ ordered_list_buf = <<>> /\ quote_buf = <<>>

----------------------------------------------------------------------------
(* C14 *)

\* C14: the blocks a call of parse returns are a function of its text alone:
\* they are the blocks a new parser returns for the same lines, whatever was
\* parsed before.  Violated by a second call of parse on the same
\* MarkdownParser object: self.blocks still holds the blocks of the first
\* call, and self.in_code, self.code_lines and self.code_language are as the
\* first call left them.
C14_ResultIsFunctionOfText == pc = "done" => blocks = ParseLines(lines)

----------------------------------------------------------------------------
(* C15 *)

\* the input paths the loop has met and found missing
MissingMet ==
    {n \in 1..build.k : ~Exists(build.input_paths[n])}

\* C15: when the loop of build_pdf_from_files has met an input path that does
\* not exist, the call ends by raising FileNotFoundError.  Violated: the
\* loop skips such a path with a warning, and the call ends by returning, or
\* with ValueError when no path was left.
C15_MissingInputRaisesFileNotFound ==
    (build.pc \in {"returned", "raised"} /\ MissingMet # {}) =>
        (build.pc = "raised" /\ build.exception = <<"FileNotFoundError">>)

----------------------------------------------------------------------------
(* C20 *)

\* C20: after any sequence of calls of _register_font, with any font_name
\* arguments and whatever the first call met (no font file, a registration
\* that succeeded, one that raised), registerFont has been called at most
\* once and every call has returned the name the first call returned.
C20_RegisterFontIdempotent ==
    /\ Len(font.attempts) <= 1
    /\ \A n \in 1..Len(font.log) : font.log[n].returned = font.log[1].returned

\* three calls with three different names: the first found a font file and
\* its registration raised, and all three returned "Helvetica"
C20_Witness ==
    /\ Len(font.log) = 3
    /\ {font.log[n].font_name : n \in 1..3} = FontNames
    /\ Len(font.attempts) = 1
    /\ font.attempts[1].raised
    /\ \A n \in 1..3 : font.log[n].returned = "Helvetica"

====
